---------------------------- MODULE Spec2Model ----------------------------
(***************************************************************************)
(* CommunicationManager of the Webots controllers: the wire codec          *)
(* (send_message / receive_message), the recipient and hop-count filter,   *)
(* the fan-out to the known robots and the queue reset.                    *)
(*                                                                         *)
(* A Python string is a sequence of one-character strings, so that         *)
(* formatting, splitting and int() are computed, not assumed.              *)
(***************************************************************************)
EXTENDS Integers, Sequences, FiniteSets, TLC

VARIABLES
    queue,          \* queue[r]: the packets waiting in r's receiver
    list_messages,  \* list_messages[r]: the robot's list of accepted Messages
    known_robots,   \* known_robots[r]: the robot's list of known robot names
    calls,          \* the device and robot calls made by the last operation
    last            \* the last operation: who, which, arguments, outcome

vars == <<queue, list_messages, known_robots, calls, last>>

-----------------------------------------------------------------------------
(* Bounds of the model                                                     *)

\* capacity of a receiver's buffer; a packet that finds it full is lost
MaxQueue == 2
\* Messages a robot's list holds before its behaviour logic clears it
MaxInbox == 2
\* the highest counter of an accepted Message that a robot still re-sends
MaxRelayed == 4
\* the packets that reach a receiver during one call
MaxLate == 1

-----------------------------------------------------------------------------
(* The robots and their constants                                          *)

Robots == {"X", "Y"}

\* robot.getName(), as a Python string
getName(r) == <<r>>

\* int(robot.getBasicTimeStep()): the basic time step of the world, in
\* milliseconds; 32 is what a Webots world has unless it sets another
time_step == 32

\* self.max_send_counter
max_send_counter == 5

-----------------------------------------------------------------------------
(* Python strings and integers                                             *)

Digits == <<"0", "1", "2", "3", "4", "5", "6", "7", "8", "9">>

IsDigit(c) == \E d \in 1..10 : Digits[d] = c

DigitValue(c) == (CHOOSE d \in 1..10 : Digits[d] = c) - 1

\* "{}".format(n) for an int n
RECURSIVE format_int(_)
format_int(n) ==
    IF n < 0 THEN <<"-">> \o format_int(-n)
    ELSE IF n < 10 THEN <<Digits[n + 1]>>
    ELSE format_int(n \div 10) \o <<Digits[(n % 10) + 1]>>

\* str.strip() for the blank the alphabet has
RECURSIVE strip(_)
strip(s) ==
    IF s # <<>> /\ Head(s) = " " THEN strip(Tail(s))
    ELSE IF s # <<>> /\ s[Len(s)] = " " THEN strip(SubSeq(s, 1, Len(s) - 1))
    ELSE s

\* the digits of an int literal, after the blanks and the sign
int_body(s) ==
    LET t == strip(s)
    IN  IF t # <<>> /\ t[1] \in {"+", "-"} THEN Tail(t) ELSE t

\* int(s) returns a value: blanks, an optional sign, digits with single
\* underscores between them; anything else raises ValueError
int_ok(s) ==
    LET b == int_body(s)
    IN  /\ b # <<>>
        /\ \A i \in 1..Len(b) : IsDigit(b[i]) \/ b[i] = "_"
        /\ IsDigit(b[1])
        /\ IsDigit(b[Len(b)])
        /\ \A i \in 1..(Len(b) - 1) : ~(b[i] = "_" /\ b[i + 1] = "_")

RECURSIVE digits_value(_)
digits_value(b) ==
    IF b = <<>> THEN 0
    ELSE IF b[Len(b)] = "_" THEN digits_value(SubSeq(b, 1, Len(b) - 1))
    ELSE 10 * digits_value(SubSeq(b, 1, Len(b) - 1)) + DigitValue(b[Len(b)])

\* int(s), where int_ok(s)
int(s) ==
    LET t == strip(s)
    IN  IF t[1] = "-" THEN 0 - digits_value(int_body(s))
        ELSE digits_value(int_body(s))

\* s.split(";")
RECURSIVE split(_)
split(s) ==
    IF \A i \in 1..Len(s) : s[i] # ";" THEN <<s>>
    ELSE LET k == CHOOSE i \in 1..Len(s) :
                      s[i] = ";" /\ \A j \in 1..(i - 1) : s[j] # ";"
         IN  <<SubSeq(s, 1, k - 1)>> \o split(SubSeq(s, k + 1, Len(s)))


-----------------------------------------------------------------------------
(* Messages and the wire frame                                             *)

\* Message(id_sender, message_type, send_counter, payload, recipient);
\* message_type is held as the string "{}".format and str() give for it
Message(id_sender, message_type, send_counter, payload, recipient) ==
    [id_sender |-> id_sender, message_type |-> message_type,
     send_counter |-> send_counter, payload |-> payload,
     recipient |-> recipient]

\* format with the counter as it is: the increment at send time forgotten
format_same(msg) ==
    msg.id_sender \o <<";">> \o msg.message_type \o <<";">>
        \o format_int(msg.send_counter) \o <<";">>
        \o msg.payload \o <<";">> \o msg.recipient

\* "{};{};{};{};{}".format(id_sender, message_type, send_counter+1, payload,
\* recipient)
format(msg) ==
    msg.id_sender \o <<";">> \o msg.message_type \o <<";">>
        \o format_int(msg.send_counter + 1) \o <<";">>
        \o msg.payload \o <<";">> \o msg.recipient

\* one call on a device, on the robot or on its list, with its argument
Call(fn, arg) == [fn |-> fn, arg |-> arg]

\* the error without the frame that caused it
ValueError_plain(incoming_msg) == <<"Invalid message format">>

\* ValueError("Invalid message format: '{}'".format(incoming_msg))
ValueError(incoming_msg) ==
    <<"Invalid message format: '">> \o incoming_msg \o <<"'">>

\* the state an operation works on; msg is the caller's Message object and
\* raised the exception the operation ends with (<<>> when it returns)
World(msg) ==
    [queue |-> queue, list_messages |-> list_messages,
     known_robots |-> known_robots,
     calls |-> <<>>, msg |-> msg, raised |-> <<>>]

-----------------------------------------------------------------------------
(* The devices                                                             *)

\* emitter.send(frame): the robots in range get the packet in their
\* receiver's buffer, unless the buffer is full
emitter_send(q, r, frame, hears) ==
    [o \in Robots |->
        IF o \in hears /\ o # r /\ Len(q[o]) < MaxQueue
        THEN Append(q[o], frame)
        ELSE q[o]]

\* robot.step(time_step): one tick of the host's clock
robot_step(w, r) ==
    [w EXCEPT !.calls = Append(@, Call("step", time_step))]

\* robot.append(msg): the Message joins the robot's list
robot_append(l, msg) == Append(l, msg)

-----------------------------------------------------------------------------
(* send_message and send_message_all                                       *)

send_message_step_first(w, r, hears) ==
    LET outgoing_msg == format(w.msg)
        stepped == robot_step(w, r)
    IN  [stepped EXCEPT !.queue = emitter_send(@, r, outgoing_msg, hears),
                        !.calls = Append(@, Call("send", outgoing_msg))]

\* self.emitter.send(outgoing_msg), then self.robot.step(self.time_step)
send_message_op(w, r, hears) ==
    LET outgoing_msg == format(w.msg)
        sent == [w EXCEPT !.queue = emitter_send(@, r, outgoing_msg, hears),
                          !.calls = Append(@, Call("send", outgoing_msg))]
    IN  robot_step(sent, r)

\* for robot_name in self.robot.known_robots: send_message(Message(...)),
\* from the i-th name on; hears[i] is who is in range at the i-th send
RECURSIVE send_message_all_from(_, _, _, _, _, _, _, _)
send_message_all_from(w, r, i, id_sender, message_type, send_counter, payload, hears) ==
    IF i > Len(w.known_robots[r]) THEN w
    ELSE LET robot_name == w.known_robots[r][i]
             m == Message(id_sender, message_type, send_counter, payload,
                          robot_name)
         IN  send_message_all_from(
                 send_message_op([w EXCEPT !.msg = m], r, hears[i]),
                 r, i + 1, id_sender, message_type, send_counter, payload,
                 hears)

\* the fan-out that misses the first known robot
send_message_all_op_second(w, r, id_sender, message_type, send_counter, payload, hears) ==
    send_message_all_from(w, r, 2, id_sender, message_type, send_counter,
                          payload, hears)

send_message_all_op(w, r, id_sender, message_type, send_counter, payload, hears) ==
    send_message_all_from(w, r, 1, id_sender, message_type, send_counter,
                          payload, hears)

-----------------------------------------------------------------------------
(* receive_message                                                         *)

\* the frame unpacks into five parts and the third is an int
parses(incoming_msg) ==
    /\ Len(split(incoming_msg)) = 5
    /\ int_ok(split(incoming_msg)[3])

\* the filter without the hop limit
considered_nolimit(r, recipient, send_counter) ==
    recipient = <<>> \/ recipient = getName(r)

\* the filter with the hop limit on broadcasts too: (a or b) and c
considered_limited(r, recipient, send_counter) ==
    (recipient = <<>> \/ recipient = getName(r))
        /\ send_counter < max_send_counter

\* the filter with the hop limit off by one
considered_le(r, recipient, send_counter) ==
    \/ recipient = <<>>
    \/ (recipient = getName(r) /\ send_counter <= max_send_counter)

\* recipient == "" or recipient == getName() and send_counter < max
considered(r, recipient, send_counter) ==
    \/ recipient = <<>>
    \/ (recipient = getName(r) /\ send_counter < max_send_counter)

\* the parts unpacked with payload and recipient in each other's place
unpack_swapped(incoming_msg) ==
    LET parts == split(incoming_msg)
    IN  Message(parts[1], parts[2], int(parts[3]), parts[5], parts[4])

\* the Message the five parts of a frame make, once they are unpacked into
\* id_sender, message_type, send_counter, payload, recipient and the counter
\* is converted
unpack(incoming_msg) ==
    LET parts == split(incoming_msg)
        id_sender == parts[1]
        message_type == parts[2]
        send_counter == int(parts[3])
        payload == parts[4]
        recipient == parts[5]
    IN  Message(id_sender, message_type, send_counter, payload, recipient)

\* the loop that drops a frame it cannot parse and goes on with the next
RECURSIVE receive_loop_keeps_bad(_, _, _)
receive_loop_keeps_bad(w, r, n) ==
    IF n = 0 THEN w
    ELSE
      LET incoming_msg == Head(w.queue[r])
          taken == [w EXCEPT !.queue[r] = Tail(@),
                             !.calls = @ \o <<Call("getString", incoming_msg),
                                              Call("nextPacket", <<>>)>>]
      IN  IF incoming_msg = <<>> THEN receive_loop_keeps_bad(taken, r, n - 1)
          ELSE IF ~parses(incoming_msg)
          THEN [w EXCEPT !.calls = Append(@, Call("getString", incoming_msg)),
                         !.raised = ValueError(incoming_msg)]
          ELSE LET m == unpack(incoming_msg)
               IN  IF considered(r, m.recipient, m.send_counter)
                   THEN receive_loop_keeps_bad(
                            [taken EXCEPT !.list_messages[r] = robot_append(@, m),
                                          !.calls = Append(@, Call("append", m))],
                            r, n - 1)
                   ELSE receive_loop_keeps_bad(taken, r, n - 1)

RECURSIVE receive_loop_empty_ends(_, _, _)
receive_loop_empty_ends(w, r, n) ==
    IF n = 0 THEN w
    ELSE
      LET incoming_msg == Head(w.queue[r])
          taken == [w EXCEPT !.queue[r] = Tail(@),
                             !.calls = @ \o <<Call("getString", incoming_msg),
                                              Call("nextPacket", <<>>)>>]
      IN  IF incoming_msg = <<>> THEN taken
          ELSE IF ~parses(incoming_msg)
          THEN [taken EXCEPT !.raised = ValueError(incoming_msg)]
          ELSE LET m == unpack(incoming_msg)
               IN  IF considered(r, m.recipient, m.send_counter)
                   THEN receive_loop_empty_ends(
                            [taken EXCEPT !.list_messages[r] = robot_append(@, m),
                                          !.calls = Append(@, Call("append", m))],
                            r, n - 1)
                   ELSE receive_loop_empty_ends(taken, r, n - 1)

RECURSIVE receive_loop_relay(_, _, _)
receive_loop_relay(w, r, n) ==
    IF n = 0 THEN w
    ELSE
      LET incoming_msg == Head(w.queue[r])
          taken == [w EXCEPT !.queue[r] = Tail(@),
                             !.calls = @ \o <<Call("getString", incoming_msg),
                                              Call("nextPacket", <<>>)>>]
      IN  IF incoming_msg = <<>> THEN receive_loop_relay(taken, r, n - 1)
          ELSE IF ~parses(incoming_msg)
          THEN [taken EXCEPT !.raised = ValueError(incoming_msg)]
          ELSE LET m == unpack(incoming_msg)
               IN  IF considered(r, m.recipient, m.send_counter)
                   THEN receive_loop_relay(
                            [taken EXCEPT !.list_messages[r] = robot_append(@, m),
                                          !.calls = @ \o <<Call("append", m),
                                                           Call("send", incoming_msg)>>],
                            r, n - 1)
                   ELSE receive_loop_relay(taken, r, n - 1)

RECURSIVE receive_loop_lifo(_, _, _)
receive_loop_lifo(w, r, n) ==
    IF n = 0 THEN w
    ELSE
      LET incoming_msg == w.queue[r][n]
          taken == [w EXCEPT !.queue[r] = SubSeq(@, 1, n - 1) \o SubSeq(@, n + 1, Len(@)),
                             !.calls = @ \o <<Call("getString", incoming_msg),
                                              Call("nextPacket", <<>>)>>]
      IN  IF incoming_msg = <<>> THEN receive_loop_lifo(taken, r, n - 1)
          ELSE IF ~parses(incoming_msg)
          THEN [taken EXCEPT !.raised = ValueError(incoming_msg)]
          ELSE LET m == unpack(incoming_msg)
               IN  IF considered(r, m.recipient, m.send_counter)
                   THEN receive_loop_lifo(
                            [taken EXCEPT !.list_messages[r] = robot_append(@, m),
                                          !.calls = Append(@, Call("append", m))],
                            r, n - 1)
                   ELSE receive_loop_lifo(taken, r, n - 1)

RECURSIVE receive_loop_skip(_, _, _)
receive_loop_skip(w, r, n) ==
    IF n = 0 THEN w
    ELSE
      LET incoming_msg == Head(w.queue[r])
          taken == [w EXCEPT
                      !.queue[r] = Tail(@),
                      !.calls = @ \o <<Call("getString", incoming_msg),
                                       Call("nextPacket", <<>>)>>]
      IN  IF incoming_msg = <<>> \/ ~parses(incoming_msg)
          THEN receive_loop_skip(taken, r, n - 1)
          ELSE
            LET m == unpack(incoming_msg)
            IN  IF considered(r, m.recipient, m.send_counter)
                THEN receive_loop_skip(
                       [taken EXCEPT
                          !.list_messages[r] = robot_append(@, m),
                          !.calls = Append(@, Call("append", m))],
                       r, n - 1)
                ELSE receive_loop_skip(taken, r, n - 1)

\* the body of the loop, n times, until a frame raises
RECURSIVE receive_loop(_, _, _)
receive_loop(w, r, n) ==
    IF n = 0 THEN w
    ELSE
      LET incoming_msg == Head(w.queue[r])
          taken == [w EXCEPT
                      !.queue[r] = Tail(@),
                      !.calls = @ \o <<Call("getString", incoming_msg),
                                       Call("nextPacket", <<>>)>>]
      IN  IF incoming_msg = <<>> THEN receive_loop(taken, r, n - 1)
          ELSE IF ~parses(incoming_msg)
          THEN [taken EXCEPT !.raised = ValueError(incoming_msg)]
          ELSE
            LET m == unpack(incoming_msg)
            IN  IF considered(r, m.recipient, m.send_counter)
                THEN receive_loop(
                       [taken EXCEPT
                          !.list_messages[r] = robot_append(@, m),
                          !.calls = Append(@, Call("append", m))],
                       r, n - 1)
                ELSE receive_loop(taken, r, n - 1)

receive_message_rescan(w, r, late) ==
    LET stepped == robot_step(w, r)
        n == Len(stepped.queue[r])
        asked == [stepped EXCEPT !.calls = Append(@, Call("getQueueLength", n))]
    IN  receive_loop([asked EXCEPT !.queue[r] = @ \o late], r, n + Len(late))

\* self.robot.step(self.time_step), then
\* for _ in range(self.receiver.getQueueLength()): the length is asked once.
\* late: the packets that reach the receiver while the loop runs; they join
\* the queue behind the packets that were there, which the loop takes from
\* the head.
receive_message_late_op(w, r, late) ==
    LET stepped == robot_step(w, r)
        n == Len(stepped.queue[r])
        asked == [stepped EXCEPT !.calls = Append(@, Call("getQueueLength", n))]
    IN  receive_loop([asked EXCEPT !.queue[r] = @ \o late], r, n)

receive_message_op(w, r) == receive_message_late_op(w, r, <<>>)

-----------------------------------------------------------------------------
(* clear_messages                                                          *)

\* the drain that stops one packet early
RECURSIVE drain_but_one(_, _)
drain_but_one(w, r) ==
    LET n == Len(w.queue[r])
        asked == [w EXCEPT !.calls = Append(@, Call("getQueueLength", n))]
    IN  IF n > 1
        THEN drain_but_one(
                 [asked EXCEPT !.queue[r] = Tail(@),
                               !.calls = Append(@, Call("nextPacket", <<>>))],
                 r)
        ELSE asked

\* while self.receiver.getQueueLength() > 0: self.receiver.nextPacket()
RECURSIVE drain(_, _)
drain(w, r) ==
    LET n == Len(w.queue[r])
        asked == [w EXCEPT !.calls = Append(@, Call("getQueueLength", n))]
    IN  IF n > 0
        THEN drain([asked EXCEPT !.queue[r] = Tail(@),
                                 !.calls = Append(@, Call("nextPacket", <<>>))],
                   r)
        ELSE asked

clear_messages_op(w, r) ==
    [drain(w, r) EXCEPT !.list_messages[r] = <<>>,
                        !.calls = Append(@, Call("clear", <<>>))]

-----------------------------------------------------------------------------
(* Priorities. MESSAGE_TYPE_PRIORITY is defined with RobotUpInitializer,   *)
(* outside this file: an enumeration of message types, each a string, and  *)
(* a function priority that gives the rank of a type, higher meaning more  *)
(* urgent.                                                                 *)

\* the types, from the least to the most urgent
MESSAGE_TYPE_PRIORITY == << <<"L", "O", "W">>, <<"M", "I", "D">>, <<"T", "O", "P">> >>

MessageTypes == { MESSAGE_TYPE_PRIORITY[i] : i \in 1..Len(MESSAGE_TYPE_PRIORITY) }

\* the rank of a type
priority(s) ==
    CHOOSE i \in 1..Len(MESSAGE_TYPE_PRIORITY) : MESSAGE_TYPE_PRIORITY[i] = s

\* str() of a str is that str
str(s) == s

is_the_message_prioritary_ge(w, msg, current_task) ==
    [w EXCEPT !.calls = Append(@, Call("return",
        priority(str(msg.message_type)) >= priority(str(current_task))))]

\* return MESSAGE_TYPE_PRIORITY.priority(str(msg.message_type))
\*            > MESSAGE_TYPE_PRIORITY.priority(str(current_task))
is_the_message_prioritary_op(w, msg, current_task) ==
    [w EXCEPT !.calls = Append(@, Call("return",
        priority(str(msg.message_type)) > priority(str(current_task))))]

-----------------------------------------------------------------------------
(* What the behaviour logic sends and what else is on the air              *)

\* the other robot of the pair
Peer(r) == CHOOSE o \in Robots : o # r

\* the messages r's behaviour logic originates
Originated(r) ==
    { Message(getName(r), <<"T">>, 0, <<"p">>, <<>>),
      Message(getName(r), <<"T">>, 9, <<>>, getName(Peer(r))),
      Message(getName(r), <<"T", "2">>, 999, <<"p", "-", "1">>, getName(r)),
      Message(<<>>, <<>>, 4, <<" ">>, getName(Peer(r))),
      Message(getName(r), <<"T">>, 0, <<"p", ";", "q">>, <<>>) }

\* a frame as an emitter outside the model may put it on the air
Frame(id_sender, message_type, counter, payload, recipient) ==
    id_sender \o <<";">> \o message_type \o <<";">> \o counter \o <<";">>
        \o payload \o <<";">> \o recipient

\* the frames that may reach r's receiver: the wire is not trusted
WireFrames(r) ==
    { <<>>,                                                   \* ""
      <<"a", ";", "b", ";", "c">>,                            \* "a;b;c"
      Frame(<<"a">>, <<"b">>, <<"4">>, <<"d">>, <<";">>),     \* six parts
      Frame(<<"a">>, <<"b">>, <<"n">>, <<"d">>, getName(Peer(r))),
      Frame(<<"a">>, <<"b">>, <<"1", "0", "0", "0">>, <<"d">>, <<>>),
      Frame(<<"a">>, <<"b">>, <<"4">>, <<"d">>, getName(r)),
      Frame(<<"a">>, <<"b">>, <<"5">>, <<"d">>, getName(r)),
      Frame(<<"a">>, <<"b">>, <<"4">>, <<"d">>, getName(Peer(r))) }

\* who may be in range of r's emitter
Ranges(r) == SUBSET (Robots \ {r})

-----------------------------------------------------------------------------
(* The operations                                                          *)

Did(r, name, args, w) ==
    [robot |-> r, name |-> name, args |-> args, msg |-> w.msg,
     raised |-> w.raised]

Commit(w) ==
    /\ queue' = w.queue
    /\ list_messages' = w.list_messages
    /\ known_robots' = w.known_robots
    /\ calls' = w.calls

NoMessage == Message(<<>>, <<>>, 0, <<>>, <<>>)

Started ==
    /\ queue = [r \in Robots |-> <<>>]
    /\ list_messages = [r \in Robots |-> <<>>]
    /\ calls = <<>>
    /\ last = [robot |-> "", name |-> "__init__", args |-> <<>>,
               msg |-> NoMessage, raised |-> <<>>]

\* each robot knows its peer
Init ==
    /\ Started
    /\ known_robots = [r \in Robots |-> <<getName(Peer(r))>>]

send_message(r, msg, hears) ==
    LET w == send_message_op(World(msg), r, hears)
    IN  /\ Commit(w)
        /\ last' = Did(r, "send_message", <<msg>>, w)

send_message_all(r, id_sender, message_type, send_counter, payload, hears) ==
    LET w == send_message_all_op(World(NoMessage), r, id_sender,
                                 message_type, send_counter, payload, hears)
    IN  /\ Commit(w)
        /\ last' = Did(r, "send_message_all",
                       <<id_sender, message_type, send_counter, payload>>,
                       [w EXCEPT !.msg = NoMessage])

receive_message(r) ==
    /\ Len(list_messages[r]) + Len(queue[r]) <= MaxInbox
    /\ LET w == receive_message_op(World(NoMessage), r)
       IN  /\ Commit(w)
           /\ last' = Did(r, "receive_message", <<>>, w)

\* a receive_message while packets keep reaching the receiver; what reached
\* it during the call is kept with the record of the call
receive_message_amid(r, late) ==
    /\ Len(list_messages[r]) + Len(queue[r]) <= MaxInbox
    /\ LET w == receive_message_late_op(World(NoMessage), r, late)
       IN  /\ Commit(w)
           /\ last' = Did(r, "receive_message", <<late>>, w)

clear_messages(r) ==
    LET w == clear_messages_op(World(NoMessage), r)
    IN  /\ Commit(w)
        /\ last' = Did(r, "clear_messages", <<>>, w)

\* a static method: r is the robot whose behaviour logic asks
is_the_message_prioritary(r, msg, current_task) ==
    LET w == is_the_message_prioritary_op(World(msg), msg, current_task)
    IN  /\ Commit(w)
        /\ last' = Did(r, "is_the_message_prioritary", <<msg, current_task>>, w)

\* a packet of an emitter outside the model reaches r's receiver
arrive(r, frame) ==
    /\ Len(queue[r]) < MaxQueue
    /\ queue' = [queue EXCEPT ![r] = Append(@, frame)]
    /\ UNCHANGED <<list_messages, known_robots, calls, last>>

-----------------------------------------------------------------------------
(* Spec: one manager, X's or Y's, on the receiving side. Its peers are     *)
(* outside the model, and what they emit, well formed or not, reaches it   *)
(* as arrivals.                                                            *)

Alone(r) ==
    /\ last.robot \in {"", r}
    /\ queue[Peer(r)] = <<>>

Next ==
    \/ \E r \in Robots : Alone(r) /\ receive_message(r)
    \/ \E r \in Robots : Alone(r) /\ clear_messages(r)
    \/ \E r \in Robots : \E frame \in WireFrames(r) :
          Alone(r) /\ arrive(r, frame)

Spec == Init /\ [][Next]_vars

-----------------------------------------------------------------------------
(* SpecSend: one manager on the sending side, with any list of known       *)
(* robots, and a peer that is in range or not and only listens.            *)

InitSend ==
    /\ Started
    /\ \E k \in 1..3 :
          known_robots = [r \in Robots |->
              <<<<>>, <<getName(Peer(r))>>, <<<<"Z">>, getName(Peer(r))>>>>[k]]

NextSend ==
    \/ \E r \in Robots : \E msg \in Originated(r) : \E hears \in Ranges(r) :
          last.robot \in {"", r} /\ send_message(r, msg, hears)
    \/ \E r \in Robots : \E c \in {0, 4} :
       \E hears \in [1..Len(known_robots[r]) -> Ranges(r)] :
          /\ last.robot \in {"", r}
          /\ send_message_all(r, getName(r), <<"T">>, c, <<"p">>, hears)

SpecSend == InitSend /\ [][NextSend]_vars

-----------------------------------------------------------------------------
(* SpecRelay: two managers in each other's range. One originates a message *)
(* when the air is quiet, and both re-send the messages they accepted,     *)
(* with the counter they came with, re-addressed or not.                   *)

Quiet == \A o \in Robots : queue[o] = <<>> /\ list_messages[o] = <<>>

RelayOriginated(r) ==
    { Message(getName(r), <<"T">>, c, <<"p">>, rc) :
        c \in {3, 4}, rc \in {<<>>, getName(Peer(r))} }

Relayed(r) ==
    { [list_messages[r][i] EXCEPT !.recipient = rc] :
        i \in {j \in 1..Len(list_messages[r]) :
                  list_messages[r][j].send_counter <= MaxRelayed},
        rc \in {<<>>, getName(Peer(r)), getName(r)} }

NextRelay ==
    \/ \E r \in Robots : \E msg \in RelayOriginated(r) :
          Quiet /\ send_message(r, msg, {Peer(r)})
    \/ \E r \in Robots :
          /\ Quiet
          /\ send_message_all(r, getName(r), <<"T">>, 3, <<"p">>,
                              [i \in 1..Len(known_robots[r]) |-> {Peer(r)}])
    \/ \E r \in Robots : \E msg \in Relayed(r) :
          send_message(r, msg, {Peer(r)})
    \/ \E r \in Robots : receive_message(r)
    \/ \E r \in Robots : clear_messages(r)

SpecRelay == Init /\ [][NextRelay]_vars

-----------------------------------------------------------------------------
(* SpecLogic: the loop of one robot's behaviour logic. It harvests the     *)
(* frames of its peers, which carry the types of the enumeration, weighs   *)
(* the Messages it holds against its current task, re-sends them, and      *)
(* clears.                                                                 *)

LogicFrames(r) ==
    { Frame(<<"a">>, t, <<"1">>, <<"d">>, getName(r)) : t \in MessageTypes }

Held(r) == { list_messages[r][i] : i \in 1..Len(list_messages[r]) }

NextLogic ==
    \/ \E r \in Robots : \E frame \in LogicFrames(r) :
          Alone(r) /\ arrive(r, frame)
    \/ \E r \in Robots : Alone(r) /\ receive_message(r)
    \/ \E r \in Robots : \E msg \in Held(r) : \E current_task \in MessageTypes :
          Alone(r) /\ is_the_message_prioritary(r, msg, current_task)
    \/ \E r \in Robots : \E msg \in Held(r) :
          Alone(r) /\ send_message(r, msg, {})
    \/ \E r \in Robots : Alone(r) /\ clear_messages(r)

SpecLogic == Init /\ [][NextLogic]_vars

-----------------------------------------------------------------------------
(* SpecCounter: one manager on the receiving side, and frames of five      *)
(* parts whose third part is whatever an emitter outside the model wrote   *)
(* there.                                                                  *)

Counters == { <<"0">>, <<"-", "1">>, <<"n">> }

CounterFrames(r) ==
    { Frame(<<"a">>, <<"b">>, c, <<"d">>, rc) :
        c \in Counters, rc \in {<<>>, getName(r)} }

NextCounter ==
    \/ \E r \in Robots : \E frame \in CounterFrames(r) :
          Alone(r) /\ arrive(r, frame)
    \/ \E r \in Robots : Alone(r) /\ receive_message(r)

SpecCounter == Init /\ [][NextCounter]_vars

-----------------------------------------------------------------------------
(* SpecAmid: one manager on the receiving side of a busy medium: packets   *)
(* reach its receiver between its calls and while receive_message runs.    *)

AmidFrames(r) ==
    { <<>>,                                                   \* ""
      <<"a", ";", "b", ";", "c">>,                            \* "a;b;c"
      Frame(<<"a">>, <<"b">>, <<"4">>, <<"d">>, getName(r)),
      Frame(<<"a">>, <<"b">>, <<"7">>, <<"d">>, <<>>),
      Frame(<<"a">>, <<"b">>, <<"4">>, <<"d">>, getName(Peer(r))) }

\* what may reach r's receiver during one call: packets that would show if
\* the call read them
Late(r) ==
    UNION { [1..n -> { <<"a", ";", "b", ";", "c">>,
                       Frame(<<"a">>, <<"b">>, <<"4">>, <<"d">>, getName(r)) }] :
            n \in 0..MaxLate }

NextAmid ==
    \/ \E r \in Robots : \E frame \in AmidFrames(r) :
          Alone(r) /\ arrive(r, frame)
    \/ \E r \in Robots : \E late \in Late(r) :
          Alone(r) /\ receive_message_amid(r, late)

SpecAmid == Init /\ [][NextAmid]_vars

-----------------------------------------------------------------------------
(* SpecChain: a relay chain between two managers in each other's range. A  *)
(* robot originates, with counter 0, a Message addressed to the other; a   *)
(* robot that accepted a Message re-sends it with the counter it came      *)
(* with, addressed to the other.                                           *)

ChainRelayed(r) ==
    { [m EXCEPT !.recipient = getName(Peer(r))] :
        m \in { h \in Held(r) : h.send_counter <= MaxRelayed } }

NextChain ==
    \/ \E r \in Robots :
          /\ Quiet
          /\ send_message(r, Message(getName(r), <<"T">>, 0, <<"p">>,
                                     getName(Peer(r))), {Peer(r)})
    \/ \E r \in Robots : \E msg \in ChainRelayed(r) :
          send_message(r, msg, {Peer(r)})
    \/ \E r \in Robots : receive_message(r)
    \/ \E r \in Robots : clear_messages(r)

SpecChain == Init /\ [][NextChain]_vars

-----------------------------------------------------------------------------
(* Reading the log of the last operation                                   *)

\* the arguments of the calls of one function, in the order of the calls
ArgsOf(log, fn) ==
    LET sel == SelectSeq(log, LAMBDA c : c.fn = fn)
    IN  [i \in 1..Len(sel) |-> sel[i].arg]

\* the frames the last operation read from the receiver
Read == ArgsOf(calls, "getString")

\* the Messages the last operation appended to the robot's list
Appended == ArgsOf(calls, "append")

\* the frames the last operation handed to the emitter
Sent == ArgsOf(calls, "send")

\* the acceptance rule as the specification words it, for the robot named S
\* and a frame of five parts with an integer third part
Accepts(S, f) ==
    LET recipient == split(f)[5]
        relay_count == int(split(f)[3])
    IN  recipient = <<>> \/ (recipient = getName(S) /\ relay_count < 5)

\* the Messages the rule lets through, of a sequence of frames, in order
RECURSIVE Expected(_, _)
Expected(S, frames) ==
    IF frames = <<>> THEN <<>>
    ELSE LET f == Head(frames)
         IN  (IF parses(f) /\ Accepts(S, f) THEN <<unpack(f)>> ELSE <<>>)
                 \o Expected(S, Tail(frames))

-----------------------------------------------------------------------------
(* C1 - C10                                                                *)

C2_RelayBounded ==
    \A r \in Robots : \A i \in 1..Len(list_messages[r]) :
        list_messages[r][i].send_counter < max_send_counter

C4_BroadcastBypass ==
    last.name = "receive_message" =>
        \A i \in 1..Len(calls) :
            (/\ calls[i].fn = "getString"
             /\ parses(calls[i].arg)
             /\ split(calls[i].arg)[5] = <<>>)
            => /\ i + 2 <= Len(calls)
               /\ calls[i + 2].fn = "append"
               /\ calls[i + 2].arg.recipient = <<>>
               /\ calls[i + 2].arg.send_counter = int(split(calls[i].arg)[3])
               /\ \E j \in 1..Len(list_messages[last.robot]) :
                     list_messages[last.robot][j] = calls[i + 2].arg

\* a broadcast with counter 1000 was read and is in the list
C4_Witness ==
    /\ last.name = "receive_message"
    /\ \E i \in 1..Len(Read) :
          Read[i] = Frame(<<"a">>, <<"b">>, <<"1", "0", "0", "0">>, <<"d">>, <<>>)
    /\ \E j \in 1..Len(list_messages[last.robot]) :
          /\ list_messages[last.robot][j].send_counter = 1000
          /\ list_messages[last.robot][j].recipient = <<>>

\* C5: the frame send_message(msg) hands to the emitter carries the counter
\* msg.send_counter + 1, and msg is after the call what it was before.
C5_SentCounterIncremented ==
    last.name = "send_message" =>
        /\ Len(Sent) = 1
        /\ LET parts == split(Sent[1])
           IN  /\ Len(parts) >= 3
               /\ int_ok(parts[3])
               /\ int(parts[3]) = last.args[1].send_counter + 1
        /\ last.msg = last.args[1]

\* a Message with counter 999 went out with 1000
C5_Witness ==
    /\ last.name = "send_message"
    /\ last.args[1].send_counter = 999
    /\ split(Sent[1])[3] = <<"1", "0", "0", "0">>

\* no part of the Message holds the delimiter
DelimiterFree(m) ==
    \A part \in {m.id_sender, m.message_type, m.payload, m.recipient} :
        \A i \in 1..Len(part) : part[i] # ";"

Malformed(f) ==
    /\ f # <<>>
    /\ Len(split(f)) # 5 \/ ~int_ok(split(f)[3])

\* C7: when receive_message reads a malformed frame the call ends there with
\* an error that carries the frame, whoever the frame is addressed to.
C7_MalformedRaises ==
    last.name = "receive_message" =>
        \A i \in 1..Len(calls) :
            (calls[i].fn = "getString" /\ Malformed(calls[i].arg))
            => /\ last.raised = <<"Invalid message format: '">>
                                    \o calls[i].arg \o <<"'">>
               /\ Len(calls) = i + 1

\* the call failed on a frame with a bad counter addressed to the peer
C7_Witness ==
    /\ last.name = "receive_message"
    /\ Read # <<>>
    /\ Read[Len(Read)] = Frame(<<"a">>, <<"b">>, <<"n">>, <<"d">>,
                               getName(Peer(last.robot)))
    /\ last.raised # <<>>

\* the place of the first malformed frame of a queue, 0 when it has none
FirstMalformed(q) ==
    IF \E k \in 1..Len(q) : Malformed(q[k])
    THEN CHOOSE k \in 1..Len(q) :
             Malformed(q[k]) /\ \A j \in 1..(k - 1) : ~Malformed(q[j])
    ELSE 0

\* C8: a receive_message that meets a malformed frame at place k of the queue
\* reads no frame after it and appends nothing of what follows it: the
\* frames after k are still in the queue.
C8_AbortsBatch ==
    [][\A r \in Robots : receive_message(r) =>
          LET k == FirstMalformed(queue[r])
          IN  k # 0 =>
                /\ last'.raised # <<>>
                /\ ArgsOf(calls', "getString") = SubSeq(queue[r], 1, k)
                /\ ArgsOf(calls', "append")
                       = Expected(r, SubSeq(queue[r], 1, k - 1))
                /\ list_messages'[r]
                       = list_messages[r] \o Expected(r, SubSeq(queue[r], 1, k - 1))
                /\ queue'[r] = SubSeq(queue[r], k + 1, Len(queue[r]))
      ]_vars

\* the call found two frames, failed on the first, and the broadcast behind
\* it is still queued and not in the list
C8_Witness ==
    /\ last.name = "receive_message"
    /\ last.raised # <<>>
    /\ calls[2].arg = 2
    /\ Len(Read) = 1
    /\ Appended = <<>>
    /\ queue[last.robot] =
          << Frame(<<"a">>, <<"b">>, <<"1", "0", "0", "0">>, <<"d">>, <<>>) >>
    /\ list_messages[last.robot] = <<>>

\* the calls of one function in a log
Count(log, fn) == Len(SelectSeq(log, LAMBDA c : c.fn = fn))

\* C9: clear_messages leaves the list and the receiver's queue empty, reads
\* no frame (it only skips the packets, one call each) and raises nothing.
C9_ClearEmpties ==
    [][\A r \in Robots : clear_messages(r) =>
          /\ queue'[r] = <<>>
          /\ list_messages'[r] = <<>>
          /\ last'.raised = <<>>
          /\ Count(calls', "getString") = 0
          /\ Count(calls', "nextPacket") = Len(queue[r])
      ]_vars

\* two packets were skipped and nothing is left
C9_Witness ==
    /\ last.name = "clear_messages"
    /\ Count(calls, "nextPacket") = 2
    /\ queue[last.robot] = <<>>
    /\ list_messages[last.robot] = <<>>

-----------------------------------------------------------------------------
(* C11 - C19                                                               *)

\* the value the last operation returned
Returned == ArgsOf(calls, "return")

\* C11: is_the_message_prioritary(msg, current_task) returns true if and only
\* if the rank of msg's type is above the rank of current_task, so false for
\* equal ranks; the call leaves the list, the queue and the known robots as
\* they were, reads and skips no packet, and steps no time.
C11_PriorityStrict ==
    [][\A r \in Robots : \A msg \in Held(r) : \A current_task \in MessageTypes :
          is_the_message_prioritary(r, msg, current_task) =>
              /\ calls' = << Call("return",
                     priority(msg.message_type) > priority(current_task)) >>
              /\ (priority(msg.message_type) = priority(current_task))
                     => calls'[1].arg = FALSE
              /\ queue' = queue
              /\ list_messages' = list_messages
              /\ known_robots' = known_robots
              /\ last'.msg = msg
              /\ last'.raised = <<>>
      ]_vars

\* a robot holding a Message and a packet asked about a Message of the rank
\* of its current task, and was told no
C11_Witness ==
    /\ last.name = "is_the_message_prioritary"
    /\ last.args[1].message_type = last.args[2]
    /\ Returned = <<FALSE>>
    /\ queue[last.robot] # <<>>
    /\ list_messages[last.robot] # <<>>

\* C12: every Message of a list has a counter that is a non-negative
\* integer, whatever frames the receiver was handed.
C12_CounterNonNegative ==
    \A r \in Robots : \A i \in 1..Len(list_messages[r]) :
        /\ list_messages[r][i].send_counter \in Int
        /\ list_messages[r][i].send_counter >= 0

\* C13 as it is worded: every receive_message asks the queue length once,
\* after its step, and takes that many packets off the queue; the packets
\* that arrive during the call are what the queue holds afterwards.
C13_DrainsSnapshot ==
    [][\A r \in Robots : \A late \in Late(r) :
          (/\ last'.robot = r
           /\ last'.args = <<late>>
           /\ receive_message_amid(r, late)) =>
              /\ calls'[1] = Call("step", time_step)
              /\ calls'[2] = Call("getQueueLength", Len(queue[r]))
              /\ Count(calls', "getQueueLength") = 1
              /\ Count(calls', "nextPacket") = Len(queue[r])
              /\ ArgsOf(calls', "getString") = queue[r]
              /\ queue'[r] = late
      ]_vars

\* C13, for the calls that do not fail: a receive_message that raises nothing
\* asks the queue length once, right after its step, reads each of the
\* packets that were queued then once, in order, each followed by one
\* nextPacket, whether it appends a Message for it or not, and leaves in the
\* queue exactly the packets that arrived during the call. A call that
\* raises has asked the length once as well, has taken no more packets than
\* that, and leaves the late packets behind the ones it did not reach.
C13_DrainsSnapshotUnlessRaised ==
    [][\A r \in Robots : \A late \in Late(r) :
          (/\ last'.robot = r
           /\ last'.args = <<late>>
           /\ receive_message_amid(r, late)) =>
              LET read == ArgsOf(calls', "getString")
              IN  /\ calls'[1] = Call("step", time_step)
                  /\ calls'[2] = Call("getQueueLength", Len(queue[r]))
                  /\ Count(calls', "getQueueLength") = 1
                  /\ Count(calls', "step") = 1
                  /\ Count(calls', "nextPacket") = Len(read)
                  /\ Len(read) <= Len(queue[r])
                  /\ read = SubSeq(queue[r], 1, Len(read))
                  /\ queue'[r] = SubSeq(queue[r], Len(read) + 1, Len(queue[r])) \o late
                  /\ last'.raised = <<>> => Len(read) = Len(queue[r])
                  /\ \A i \in 1..Len(calls') :
                        calls'[i].fn = "getString" =>
                            /\ i < Len(calls')
                            /\ calls'[i + 1].fn = "nextPacket"
      ]_vars

\* a call found an empty packet and one for the peer, read both and
\* appended nothing, and the packet for the robot that came during the call
\* is the one in the queue
C13_Witness ==
    /\ last.name = "receive_message"
    /\ last.raised = <<>>
    /\ calls[2] = Call("getQueueLength", 2)
    /\ Read = << <<>>, Frame(<<"a">>, <<"b">>, <<"4">>, <<"d">>,
                             getName(Peer(last.robot))) >>
    /\ Appended = <<>>
    /\ last.args = << queue[last.robot] >>
    /\ queue[last.robot] =
          << Frame(<<"a">>, <<"b">>, <<"4">>, <<"d">>, getName(last.robot)) >>

\* C14: receive_message reads the packets in the order they are queued and
\* appends a Message for each accepted one before it reads the next, so the
\* Messages it appends are those of the accepted frames it read, in the order
\* of the queue, and they join the list in that order behind what it held;
\* no packet that came during the call is read.
C14_FifoOrder ==
    [][\A r \in Robots : \A late \in Late(r) :
          (/\ last'.robot = r
           /\ last'.args = <<late>>
           /\ receive_message_amid(r, late)) =>
              LET read == ArgsOf(calls', "getString")
                  appended == ArgsOf(calls', "append")
              IN  /\ Len(read) <= Len(queue[r])
                  /\ \A i \in 1..Len(read) : read[i] = queue[r][i]
                  /\ appended = Expected(r, read)
                  /\ list_messages'[r] = list_messages[r] \o appended
                  /\ \A i \in 1..Len(calls') :
                        calls'[i].fn = "append" =>
                            /\ i > 2
                            /\ calls'[i - 2].fn = "getString"
                            /\ parses(calls'[i - 2].arg)
                            /\ unpack(calls'[i - 2].arg) = calls'[i].arg
      ]_vars

\* a call found a packet for the robot and a broadcast behind it, appended
\* the two Messages in that order, and left the packet that came meanwhile
C14_Witness ==
    /\ last.name = "receive_message"
    /\ Read = << Frame(<<"a">>, <<"b">>, <<"4">>, <<"d">>, getName(last.robot)),
                 Frame(<<"a">>, <<"b">>, <<"7">>, <<"d">>, <<>>) >>
    /\ Appended = << Message(<<"a">>, <<"b">>, 4, <<"d">>, getName(last.robot)),
                     Message(<<"a">>, <<"b">>, 7, <<"d">>, <<>>) >>
    /\ list_messages[last.robot] = Appended
    /\ last.args = << queue[last.robot] >>
    /\ queue[last.robot] =
          << Frame(<<"a">>, <<"b">>, <<"4">>, <<"d">>, getName(last.robot)) >>

\* C15: send_message hands one frame to the emitter and then steps the
\* robot once, and does nothing else; receive_message steps the robot once,
\* first, and only then asks the queue length and reads; clear_messages and
\* is_the_message_prioritary do not step.
C15_TickCoupling ==
    /\ last.name = "send_message" =>
          calls = << Call("send", format(last.args[1])), Call("step", time_step) >>
    /\ last.name = "receive_message" =>
          /\ calls[1] = Call("step", time_step)
          /\ calls[2].fn = "getQueueLength"
          /\ Count(calls, "step") = 1
          /\ Count(calls, "getQueueLength") = 1
    /\ last.name \in {"clear_messages", "is_the_message_prioritary"} =>
          Count(calls, "step") = 0

\* a robot that holds two Messages has sent one: one frame, then one step
C15_Witness ==
    /\ last.name = "send_message"
    /\ Len(list_messages[last.robot]) = 2
    /\ Len(calls) = 2
    /\ calls[1].fn = "send"
    /\ calls[2] = Call("step", time_step)

\* C16: receive_message and clear_messages hand nothing to the emitter,
\* whether the call appended Messages, raised on a malformed frame or did
\* neither, and no packet of theirs is in another robot's queue.
C16_NoTransmit ==
    last.name \in {"receive_message", "clear_messages"} =>
        /\ Count(calls, "send") = 0
        /\ \A o \in Robots \ {last.robot} : queue[o] = <<>>

\* a receive_message appended a Message, then raised on a malformed frame,
\* and sent nothing
C16_Witness ==
    /\ last.name = "receive_message"
    /\ Appended # <<>>
    /\ last.raised # <<>>
    /\ Sent = <<>>

\* C17: an empty packet that receive_message reads is skipped (nextPacket)
\* like any other, no Message is appended for it and the call does not raise
\* on it; when it was not the last of the packets counted at the start, the
\* call goes on to read the next.
C17_EmptySkipped ==
    last.name = "receive_message" =>
        \A i \in 1..Len(calls) :
            (calls[i].fn = "getString" /\ calls[i].arg = <<>>) =>
                /\ i + 1 <= Len(calls)
                /\ calls[i + 1].fn = "nextPacket"
                /\ i + 2 <= Len(calls) => calls[i + 2].fn = "getString"
                /\ (Count(SubSeq(calls, 1, i), "getString") < calls[2].arg)
                       => i + 2 <= Len(calls)
                /\ (Count(SubSeq(calls, 1, i), "getString") = calls[2].arg)
                       => /\ i + 1 = Len(calls)
                          /\ last.raised = <<>>

\* a call read an empty packet and then the packet behind it, and appended
\* the Message of that one only
C17_Witness ==
    /\ last.name = "receive_message"
    /\ last.raised = <<>>
    /\ Len(Read) = 2
    /\ Read[1] = <<>>
    /\ parses(Read[2])
    /\ Appended = << unpack(Read[2]) >>
    /\ list_messages[last.robot] = Appended
    /\ queue[last.robot] = <<>>

\* C18: a receive_message that raises on the malformed frame at place k of
\* the queue keeps in the list what it held and the Messages of the accepted
\* frames before k, and leaves in the queue the frames after k, in order,
\* without the frame it raised on. The next receive_message of the robot
\* finds the frames the failed call had counted and not reached still at the
\* head of the queue, reads them first, in order, and appends the Messages
\* of the accepted ones behind those the failed call appended.
C18_FailureKeepsRest ==
    [][\A r \in Robots : receive_message(r) =>
          /\ LET k == FirstMalformed(queue[r])
             IN  k # 0 =>
                   /\ last'.raised = ValueError(queue[r][k])
                   /\ Count(calls', "nextPacket") = k
                   /\ list_messages'[r]
                         = list_messages[r] \o Expected(r, SubSeq(queue[r], 1, k - 1))
                   /\ queue'[r] = SubSeq(queue[r], k + 1, Len(queue[r]))
          /\ (last.name = "receive_message" /\ last.robot = r /\ last.raised # <<>>) =>
                LET behind == calls[2].arg - Len(Read)
                    kept == Len(list_messages[r]) - Len(Appended)
                    read == ArgsOf(calls', "getString")
                IN  /\ Len(queue[r]) >= behind
                    /\ kept >= 0
                    /\ SubSeq(list_messages[r], kept + 1, Len(list_messages[r])) = Appended
                    /\ \A i \in 1..Len(read) : read[i] = queue[r][i]
                    /\ (\A i \in 1..behind : ~Malformed(queue[r][i]))
                          => Len(read) >= behind
                    /\ list_messages'[r] = list_messages[r] \o Expected(r, read)
      ]_vars

\* a call that had counted two packets raised on the first; the packet that
\* was behind it is at the head of the queue, before one that came since,
\* and the robot can call receive_message again
C18_Witness ==
    /\ last.name = "receive_message"
    /\ last.raised # <<>>
    /\ calls[2].arg = 2
    /\ Len(Read) = 1
    /\ Len(queue[last.robot]) = 2
    /\ queue[last.robot][1] =
          Frame(<<"a">>, <<"b">>, <<"4">>, <<"d">>, getName(last.robot))
    /\ Len(list_messages[last.robot]) + Len(queue[last.robot]) <= MaxInbox

\* the counter field of a frame of five parts
CounterOf(f) == int(split(f)[3])

=============================================================================
